---- MODULE Spec2Model ----
(***************************************************************************)
(* Model of the HTTP boundary of the AgentsLocate API: the request schemas *)
(* (core/models), the exception taxonomy (apps/api/exceptions), the error  *)
(* classifiers (apps/api/utils/error_handlers.py), the two endpoint        *)
(* handlers of the real router (apps/api/routes) and the simulation router *)
(* (apps/api/simulation_main.py).                                          *)
(*                                                                         *)
(* Strings are TLA+ strings; Len, \o and SubSeq act on them character by   *)
(* character, so lengths and patterns are computed on the real text.       *)
(***************************************************************************)
EXTENDS Integers, Sequences, FiniteSets, TLC

VARIABLES
  inflight,   \* slot -> the state of the request handled in that slot
  probe       \* input and results of the pure-function specifications

vars == <<inflight, probe>>

None == "<None>"        \* Python None for optional fields (not a string value)

----------------------------------------------------------------------------
(* Bounds of the model *)

MaxHistory == 11        \* conversation histories of 0..MaxHistory entries
MaxOver == 1            \* strings up to MaxOver characters beyond a limit

----------------------------------------------------------------------------
(* String helpers *)

RECURSIVE Rep(_, _)
Rep(c, n) ==
  IF n <= 0 THEN ""
  ELSE LET h == Rep(c, n \div 2)
       IN IF n % 2 = 0 THEN h \o h ELSE (h \o h) \o c

CharAt(s, i) == SubSeq(s, i, i)

Chars(s) == {CharAt(s, i) : i \in 1..Len(s)}

\* Python `sub in s`
Contains(s, sub) ==
  \E i \in 1..(Len(s) - Len(sub) + 1) : SubSeq(s, i, i + Len(sub) - 1) = sub

StartsWith(s, p) == Len(s) >= Len(p) /\ SubSeq(s, 1, Len(p)) = p

\* pydantic Field(min_length=lo, max_length=hi) on a str
StrLenOk(s, lo, hi) == Len(s) >= lo /\ Len(s) <= hi

----------------------------------------------------------------------------
(* core/models/repository.py : IngestRequest *)

UrlMinLength == 19
UrlMaxLength == 200
TokenMinLength == 4
TokenMaxLength == 200

\* the character class [a-zA-Z0-9._-]
UrlClass ==
  Chars("abcdefghijklmnopqrstuvwxyzABCDEFGHIJKLMNOPQRSTUVWXYZ0123456789._-")

GithubPrefix == "https://github.com/"

\* the pattern with `$` taken as the very end of the text
GithubFullMatch(v) ==
  /\ StartsWith(v, GithubPrefix)
  /\ LET rest == SubSeq(v, Len(GithubPrefix) + 1, Len(v))
         n == Len(rest)
     IN \E k \in 2..n :            \* k: position of the separating slash
          /\ CharAt(rest, k) = "/"
          /\ \A i \in 1..(k - 1) : CharAt(rest, i) \in UrlClass
          /\ \E e \in {n, n - 1} :        \* e: last character of the repo
               /\ e > k
               /\ \A i \in (k + 1)..e : CharAt(rest, i) \in UrlClass
               /\ (e = n - 1 => CharAt(rest, n) = "/")

\* re.match(github_pattern, v): anchored at the start; Python's `$` matches
\* at the end of the text and also just before a final newline
GithubPatternMatch(v) ==
  \/ GithubFullMatch(v)
  \/ /\ Len(v) > 0
     /\ CharAt(v, Len(v)) = "\n"
     /\ GithubFullMatch(SubSeq(v, 1, Len(v) - 1))

\* the validator had it used re.search: the pattern may start anywhere
validate_github_url_search(v) ==
  \E k \in 1..(Len(v) + 1) : GithubPatternMatch(SubSeq(v, k, Len(v)))

validate_github_url(v) == GithubPatternMatch(v)

\* a request body is [repository_url, github_token]; TRUE iff it validates
IngestRequest(r) ==
  /\ StrLenOk(r.repository_url, UrlMinLength, UrlMaxLength)
  /\ validate_github_url(r.repository_url)
  /\ (r.github_token # None =>
        StrLenOk(r.github_token, TokenMinLength, TokenMaxLength))

----------------------------------------------------------------------------
(* core/models/chat.py : ChatRequest *)

MessageMaxLength == 5000
ContentMaxLength == 5000
HistoryMaxItems == 10
RepoIdHexLen == 8

HexClass == Chars("abcdef0123456789")

\* pydantic pattern ^repo-[a-f0-9]{8}$ of IngestSuccessResponse.repository_id
IngestRepoIdPattern(s) ==
  /\ Len(s) = Len("repo-") + RepoIdHexLen
  /\ StartsWith(s, "repo-")
  /\ \A i \in (Len("repo-") + 1)..Len(s) : CharAt(s, i) \in HexClass

\* the pattern had it been case-insensitive
ChatRepoIdPattern_any_case(s) ==
  /\ StartsWith(s, "repo-")
  /\ Len(s) - Len("repo-") = RepoIdHexLen
  /\ \A i \in 1..RepoIdHexLen :
       CharAt(s, Len("repo-") + i) \in HexClass \cup Chars("ABCDEF")

\* the pattern had it been ^repo-
ChatRepoIdPattern_prefix_only(s) == StartsWith(s, "repo-")

\* pydantic pattern ^repo-[a-f0-9]{8}$ of ChatRequest.repository_id
ChatRepoIdPattern(s) ==
  /\ StartsWith(s, "repo-")
  /\ Len(s) - Len("repo-") = RepoIdHexLen
  /\ \A i \in 1..RepoIdHexLen : CharAt(s, Len("repo-") + i) \in HexClass

ConversationEntry(e) ==
  /\ e.role \in {"user", "agent"}
  /\ StrLenOk(e.content, 1, ContentMaxLength)

\* An optional list is [none |-> TRUE] for Python None, and otherwise
\* [none |-> FALSE, items |-> the list]
NoList == [none |-> TRUE, items |-> <<>>]
SomeList(l) == [none |-> FALSE, items |-> l]

\* Field(None, max_items=10) on conversation_history
HistoryMaxItemsOk(v) == v.none \/ Len(v.items) <= HistoryMaxItems

\* the field validator had it compared with >= 10
validate_conversation_history_off_by_one(v) ==
  ~(~v.none /\ Len(v.items) >= 10)

\* the field validator: TRUE iff it does not raise
validate_conversation_history(v) == ~(~v.none /\ Len(v.items) > 10)

ChatRequest(r) ==
  /\ StrLenOk(r.message, 1, MessageMaxLength)
  /\ ChatRepoIdPattern(r.repository_id)
  /\ (~r.conversation_history.none =>
        \A i \in 1..Len(r.conversation_history.items) :
          ConversationEntry(r.conversation_history.items[i]))
  /\ HistoryMaxItemsOk(r.conversation_history)
  /\ validate_conversation_history(r.conversation_history)

----------------------------------------------------------------------------
(* Response shapes *)

ErrorMaxLength == 1000
ErrorCodeMaxLength == 50

\* IngestErrorResponse(error=..., error_code=...): TRUE iff construction
\* succeeds (otherwise pydantic raises ValidationError)
IngestErrorResponse(error, error_code) ==
  /\ StrLenOk(error, 1, ErrorMaxLength)
  /\ StrLenOk(error_code, 1, ErrorCodeMaxLength)

ChatErrorResponse(error, error_code) ==
  /\ StrLenOk(error, 1, ErrorMaxLength)
  /\ StrLenOk(error_code, 1, ErrorCodeMaxLength)

----------------------------------------------------------------------------
(* apps/api/exceptions/__init___.py and the built-in exception hierarchy *)

\* class -> its base class.  The classes named "sim.X" are the duplicates
\* that simulation_main.py declares for itself.
Bases ==
  [c \in {"InvalidURLError", "InvalidTokenError", "RepoTooLargeError",
          "sim.InvalidURLError", "sim.InvalidTokenError",
          "sim.RepoTooLargeError", "UnicodeError"} |-> "ValueError"]
  @@ [c \in {"InsufficientPermissionsError",
             "sim.InsufficientPermissionsError"} |-> "PermissionError"]
  @@ [c \in {"ProcessingFailedError", "StorageError", "UnsupportedFormatError",
             "sim.ProcessingFailedError", "sim.StorageError",
             "sim.UnsupportedFormatError",
             "ValueError", "OSError", "RuntimeError", "LookupError"}
        |-> "Exception"]
  @@ [c \in {"PermissionError", "FileNotFoundError", "ConnectionError",
             "TimeoutError"} |-> "OSError"]
  @@ [c \in {"NotImplementedError"} |-> "RuntimeError"]
  @@ [c \in {"KeyError"} |-> "LookupError"]
  @@ [c \in {"Exception"} |-> "BaseException"]

\* isinstance(error, target) for an error of class cls
RECURSIVE IsInstance(_, _)
IsInstance(cls, target) ==
  \/ cls = target
  \/ cls \in DOMAIN Bases /\ IsInstance(Bases[cls], target)

\* an exception value is [cls, msg]; msg is str(error)
Exc(cls, msg) == [cls |-> cls, msg |-> msg]

----------------------------------------------------------------------------
(* apps/api/utils/error_handlers.py *)

StrError == "<str(error)>"       \* a row that answers with str(error)

Row(test, st, code, text) ==
  [test |-> test, status |-> st, error_code |-> code, error |-> text]

\* the if/elif chain of handle_ingestion_error, one row per branch
IngestionRows ==
  << Row("InvalidURLError", 400, "INVALID_URL", StrError),
     Row("InvalidTokenError", 401, "INVALID_TOKEN", StrError),
     Row("InsufficientPermissionsError", 403, "INSUFFICIENT_PERMISSIONS",
         StrError),
     Row("FileNotFoundError", 404, "REPO_NOT_FOUND", StrError),
     Row("PermissionError", 401, "PRIVATE_REPO_NO_TOKEN", StrError),
     Row("RepoTooLargeError", 422, "REPO_TOO_LARGE", StrError),
     Row("ProcessingFailedError", 422, "PROCESSING_FAILED", StrError),
     Row("StorageError", 500, "STORAGE_ERROR", StrError),
     Row("NotImplementedError", 501, "NOT_IMPLEMENTED",
         "Ingestion agent not yet implemented") >>

IngestionFallback ==
  Row("Exception", 500, "AGENT_ERROR",
      "An unexpected error occurred during repository processing.")

\* the chain had its NotImplementedError branch answered with str(error)
ChatRows_raw_not_implemented ==
  << Row("FileNotFoundError", 404, "REPO_NOT_INDEXED", StrError),
     Row("ValueError", 422, "QUERY_PROCESSING_FAILED", StrError),
     Row("ConnectionError", 500, "AGENT_UNAVAILABLE", StrError),
     Row("NotImplementedError", 501, "NOT_IMPLEMENTED", StrError) >>

\* the if/elif chain of handle_chat_error
ChatRows ==
  << Row("FileNotFoundError", 404, "REPO_NOT_INDEXED", StrError),
     Row("ValueError", 422, "QUERY_PROCESSING_FAILED", StrError),
     Row("ConnectionError", 500, "AGENT_UNAVAILABLE", StrError),
     Row("NotImplementedError", 501, "NOT_IMPLEMENTED",
         "Chat agent not yet implemented") >>

ChatFallback ==
  Row("Exception", 500, "AGENT_ERROR",
      "An unexpected error occurred while processing the chat request.")

\* the rows whose isinstance test is true of the error
MatchingRows(rows, error) ==
  {i \in 1..Len(rows) : IsInstance(error.cls, rows[i].test)}

\* the branch an if/elif (or try/except) chain takes: the first row whose
\* test is true, the final else (except Exception) when none is
FirstMatch(rows, fallback, error) ==
  LET m == MatchingRows(rows, error)
  IN IF m = {} THEN fallback
     ELSE rows[CHOOSE i \in m : \A j \in m : i <= j]

\* results of a call: a returned value or a raised exception
Returned(v) == [raised |-> FALSE, value |-> v]
Raised(e) == [raised |-> TRUE, exc |-> e]

\* JSONResponse(status_code=..., content=XErrorResponse(...).dict()); the
\* construction of the error response raises pydantic's ValidationError when
\* the texts do not fit the shape
ErrorJSONResponse(row, error, shapeOk) ==
  LET text == IF row.error = StrError THEN error.msg ELSE row.error
  IN IF shapeOk
     THEN Returned([status_code |-> row.status,
                    content |-> [success |-> FALSE, error |-> text,
                                 error_code |-> row.error_code]])
     ELSE Raised(Exc("ValidationError", "1 validation error"))

RowText(row, error) == IF row.error = StrError THEN error.msg ELSE row.error

handle_ingestion_error(error) ==
  LET row == FirstMatch(IngestionRows, IngestionFallback, error)
  IN ErrorJSONResponse(row, error,
       IngestErrorResponse(RowText(row, error), row.error_code))

handle_chat_error(error) ==
  LET row == FirstMatch(ChatRows, ChatFallback, error)
  IN ErrorJSONResponse(row, error,
       ChatErrorResponse(RowText(row, error), row.error_code))

----------------------------------------------------------------------------
(* apps/api/simulation_main.py : the except chains of the two handlers *)

SimIngestionRows ==
  << Row("sim.InvalidURLError", 400, "INVALID_URL", StrError),
     Row("sim.InvalidTokenError", 401, "INVALID_TOKEN", StrError),
     Row("sim.InsufficientPermissionsError", 403, "INSUFFICIENT_PERMISSIONS",
         StrError),
     Row("FileNotFoundError", 404, "REPO_NOT_FOUND", StrError),
     Row("PermissionError", 401, "PRIVATE_REPO_NO_TOKEN", StrError),
     Row("sim.RepoTooLargeError", 422, "REPO_TOO_LARGE", StrError),
     Row("sim.ProcessingFailedError", 422, "PROCESSING_FAILED", StrError),
     Row("sim.StorageError", 500, "STORAGE_ERROR", StrError) >>

SimChatRows ==
  << Row("FileNotFoundError", 404, "REPO_NOT_INDEXED", StrError),
     Row("ValueError", 422, "QUERY_PROCESSING_FAILED", StrError),
     Row("ConnectionError", 500, "AGENT_UNAVAILABLE", StrError) >>

SimIngestExcept(error) ==
  LET row == FirstMatch(SimIngestionRows, IngestionFallback, error)
  IN ErrorJSONResponse(row, error,
       IngestErrorResponse(RowText(row, error), row.error_code))

SimChatExcept(error) ==
  LET row == FirstMatch(SimChatRows, ChatFallback, error)
  IN ErrorJSONResponse(row, error,
       ChatErrorResponse(RowText(row, error), row.error_code))

----------------------------------------------------------------------------
(* Collaborators *)

\* apps/api/services/ingestion.py : the stub always raises
IngestionService_process_repository(request) ==
  Raised(Exc("NotImplementedError", "Ingestion agent integration pending"))

\* apps/api/services/chat.py : the stub always raises
ChatService_process_query(request) ==
  Raised(Exc("NotImplementedError", "Chat agent integration pending"))

SimIngestSuccess ==
  [success |-> TRUE,
   repository_id |-> "repo-a1b2c3d4",
   message |-> "Repository successfully processed and indexed",
   processing_summary |-> [files_processed |-> 247,
                           processing_time_seconds |-> "45.2"]]

SimChatSuccess ==
  [response |-> "User authentication is handled primarily in the authentication module. I found several relevant files that implement different aspects of the authentication system.",
   file_suggestions |-> <<"auth.js", "LoginComponent.jsx">>,
   metadata |-> [processing_time_ms |-> 1247,
                 search_strategy |-> "semantic_search"]]

\* Python truthiness of `request.github_token`
Truthy(token) == token # None /\ Len(token) > 0

\* the placeholder had it tested the size of the repository before the token
process_ingestion_request_size_first(request) ==
  LET url == request.repository_url
      token == request.github_token
  IN IF Contains(url, "invalid-url")
       THEN Raised(Exc("sim.InvalidURLError",
                       "Repository URL format is invalid"))
     ELSE IF Contains(url, "not-found")
       THEN Raised(Exc("FileNotFoundError",
                       "Repository does not exist or is not accessible"))
     ELSE IF Contains(url, "private") /\ ~Truthy(token)
       THEN Raised(Exc("PermissionError",
                       "Private repository requires GitHub token"))
     ELSE IF Contains(url, "repo-too-large")
       THEN Raised(Exc("sim.RepoTooLargeError",
                       "Repository exceeds processing size limits"))
     ELSE IF Truthy(token) /\ Contains(token, "invalid-token")
       THEN Raised(Exc("sim.InvalidTokenError",
                       "GitHub token is invalid or expired"))
     ELSE IF Truthy(token) /\ Contains(token, "insufficient-permissions")
       THEN Raised(Exc("sim.InsufficientPermissionsError",
                       "Token lacks required repository permissions"))
     ELSE IF Contains(url, "processing-failed")
       THEN Raised(Exc("sim.ProcessingFailedError",
                       "Repository processing failed"))
     ELSE IF Contains(url, "storage-error")
       THEN Raised(Exc("sim.StorageError",
                       "Failed to store repository data"))
     ELSE IF Contains(url, "fail-processing")
       THEN Raised(Exc("Exception",
                       "Simulated repository processing failure."))
     ELSE Returned(SimIngestSuccess)

\* simulation_main.py : the triggers are tested in the order of the code
process_ingestion_request(request) ==
  LET url == request.repository_url
      token == request.github_token
  IN IF Contains(url, "invalid-url")
       THEN Raised(Exc("sim.InvalidURLError",
                       "Repository URL format is invalid"))
     ELSE IF Contains(url, "not-found")
       THEN Raised(Exc("FileNotFoundError",
                       "Repository does not exist or is not accessible"))
     ELSE IF Contains(url, "private") /\ ~Truthy(token)
       THEN Raised(Exc("PermissionError",
                       "Private repository requires GitHub token"))
     ELSE IF Truthy(token) /\ Contains(token, "invalid-token")
       THEN Raised(Exc("sim.InvalidTokenError",
                       "GitHub token is invalid or expired"))
     ELSE IF Truthy(token) /\ Contains(token, "insufficient-permissions")
       THEN Raised(Exc("sim.InsufficientPermissionsError",
                       "Token lacks required repository permissions"))
     ELSE IF Contains(url, "repo-too-large")
       THEN Raised(Exc("sim.RepoTooLargeError",
                       "Repository exceeds processing size limits"))
     ELSE IF Contains(url, "processing-failed")
       THEN Raised(Exc("sim.ProcessingFailedError",
                       "Repository processing failed"))
     ELSE IF Contains(url, "storage-error")
       THEN Raised(Exc("sim.StorageError",
                       "Failed to store repository data"))
     ELSE IF Contains(url, "fail-processing")
       THEN Raised(Exc("Exception",
                       "Simulated repository processing failure."))
     ELSE Returned(SimIngestSuccess)

\* the placeholder had it compared the message with == instead of `in`
process_chat_request_exact_word(request) ==
  IF request.repository_id = "repo-not-indexed"
    THEN Raised(Exc("FileNotFoundError", "Repository ID not found in system"))
  ELSE IF request.message = "unprocessable"
    THEN Raised(Exc("ValueError", "Query cannot be processed by agent system"))
  ELSE IF request.message = "unavailable"
    THEN Raised(Exc("ConnectionError", "Chat agent system is unavailable"))
  ELSE Returned(SimChatSuccess)

process_chat_request(request) ==
  IF request.repository_id = "repo-not-indexed"
    THEN Raised(Exc("FileNotFoundError", "Repository ID not found in system"))
  ELSE IF Contains(request.message, "unprocessable")
    THEN Raised(Exc("ValueError", "Query cannot be processed by agent system"))
  ELSE IF Contains(request.message, "unavailable")
    THEN Raised(Exc("ConnectionError", "Chat agent system is unavailable"))
  ELSE Returned(SimChatSuccess)

\* What the agent subsystem behind the services may do once it is integrated
\* (the commented-out agent call of the services): return a success payload
\* or raise any exception with any text.
AgentClasses ==
  {"InvalidURLError", "InvalidTokenError", "InsufficientPermissionsError",
   "FileNotFoundError", "PermissionError", "RepoTooLargeError",
   "ProcessingFailedError", "StorageError", "UnsupportedFormatError",
   "NotImplementedError", "ValueError", "ConnectionError", "TimeoutError",
   "Exception", "KeyError", "RuntimeError", "UnicodeError"}

AgentMessages ==
  {"", "boom", Rep("x", ErrorMaxLength)}
  \cup {Rep("x", ErrorMaxLength + k) : k \in 1..MaxOver}

AgentFailures == {Exc(c, m) : c \in AgentClasses, m \in AgentMessages}

AgentOutcomes(endpoint) ==
  {Raised(e) : e \in AgentFailures}
  \cup {Returned(IF endpoint = "ingest" THEN SimIngestSuccess
                 ELSE SimChatSuccess)}

----------------------------------------------------------------------------
(* Request bodies a client may send *)

UrlHosts == {"https://github.com/", "http://github.com/"}
UrlOwners == {"foo", "private", "fo o"}
UrlRepos ==
  {"bar", "invalid-url", "not-found", "private-repo", "repo-too-large",
   "processing-failed", "storage-error", "fail-processing",
   "not-found-invalid-url", "storage-error-repo-too-large"}
UrlSuffixes == {"", "/", "//", "\n"}

\* a well-formed URL of exactly n characters
UrlOfLength(n) == GithubPrefix \o Rep("a", n - Len(GithubPrefix) - 2) \o "/b"

UrlInputs ==
  {(h \o o) \o ("/" \o r) \o x :
      h \in UrlHosts, o \in UrlOwners, r \in UrlRepos, x \in UrlSuffixes}
  \cup {"", GithubPrefix, "https://githubXcom/foo/bar",
        "https://github.com/foo", "https://github.com/foo/bar/baz",
        "see https://github.com/foo/bar"}
  \cup {UrlOfLength(UrlMaxLength + k) : k \in 0..MaxOver}

TokenInputs ==
  {None, "", "abc", "abcd", "invalid-token", "insufficient-permissions",
   "invalid-token insufficient-permissions"}
  \cup {Rep("t", TokenMaxLength + k) : k \in 0..MaxOver}

IngestInputs ==
  [repository_url : UrlInputs, github_token : TokenInputs]

MessageInputs ==
  {"", "hello", "is the agent unavailable?", "unprocessable",
   "unprocessable and unavailable", "unavailable, then unprocessable"}
  \cup {Rep("m", MessageMaxLength + k) : k \in 0..MaxOver}

RepoIdInputs ==
  {"repo-a1b2c3d4", "repo-deadbeef", "repo-not-indexed", "repo-A1B2C3D4",
   "repo-a1b2c3d", "repo-a1b2c3d4\n"}

EntryInputs ==
  {[role |-> "user", content |-> "hi"], [role |-> "agent", content |-> "ok"],
   [role |-> "system", content |-> "hi"], [role |-> "user", content |-> ""]}

HistoryInputs ==
  {NoList}
  \cup {SomeList([i \in 1..n |-> e]) : n \in 0..MaxHistory, e \in EntryInputs}

ChatInputs ==
  [message : MessageInputs, repository_id : RepoIdInputs,
   conversation_history : HistoryInputs]

----------------------------------------------------------------------------
(* The endpoint handlers *)

\* responses as the client sees them
ValidationResponse ==            \* FastAPI's answer to a body that fails
  [kind |-> "validation", status_code |-> 422,      \* the request schema
   content |-> [detail |-> "validation error"]]

ModelResponse(value) ==          \* `return result` through response_model
  [kind |-> "success", status_code |-> 200, content |-> value]

FaultResponse ==                 \* an exception left the handler
  [kind |-> "fault", status_code |-> 500,
   content |-> [detail |-> "Internal Server Error"]]

\* the end of a handler: `return result`, or the except branch, whose own
\* exception (if the classifier raises) leaves the handler
Complete(outcome, classified) ==
  IF ~outcome.raised THEN ModelResponse(outcome.value)
  ELSE IF classified.raised THEN FaultResponse
  ELSE [kind |-> "error", status_code |-> classified.value.status_code,
        content |-> classified.value.content]

\* apps/api/routes/ingestion.py, after the await
ingest_repository(outcome) ==
  Complete(outcome, IF outcome.raised THEN handle_ingestion_error(outcome.exc)
                    ELSE outcome)

\* apps/api/routes/chat.py, after the await
chat_with_repository(outcome) ==
  Complete(outcome, IF outcome.raised THEN handle_chat_error(outcome.exc)
                    ELSE outcome)

\* apps/api/simulation_main.py handlers, after the await
SimIngestRepository(outcome) ==
  Complete(outcome, IF outcome.raised THEN SimIngestExcept(outcome.exc)
                    ELSE outcome)

SimChatWithRepository(outcome) ==
  Complete(outcome, IF outcome.raised THEN SimChatExcept(outcome.exc)
                    ELSE outcome)

\* request validation by the framework, before the handler body runs
RequestValid(endpoint, request) ==
  IF endpoint = "ingest" THEN IngestRequest(request) ELSE ChatRequest(request)

NoRequest == [none |-> TRUE]
NoOutcome == [raised |-> FALSE, value |-> NoRequest]
NoResponse == [kind |-> "none", status_code |-> 0, content |-> NoRequest]

\* a slot with no request
Idle ==
  [pc |-> "idle", router |-> None, service |-> None, endpoint |-> None,
   request |-> NoRequest, calls |-> 0, outcome |-> NoOutcome,
   response |-> NoResponse]

Slots == DOMAIN inflight

\* router -> the collaborators it can be wired to: the real router calls its
\* service, which is the stub today and the agent once integrated; the
\* simulation router calls its own placeholder functions
Services(router) == IF router = "real" THEN {"stub", "agent"} ELSE {"sim"}

\* a request arrives at POST /api/ingest
ReceiveIngest(i) ==
  /\ inflight[i].pc = "idle"
  /\ \E router \in {"real", "sim"} : \E service \in Services(router) :
     \E body \in IngestInputs :
       inflight' = [inflight EXCEPT ![i] =
         [Idle EXCEPT !.pc = "received", !.router = router,
                      !.service = service, !.endpoint = "ingest",
                      !.request = body]]
  /\ UNCHANGED probe

\* a request arrives at POST /api/chat
ReceiveChat(i) ==
  /\ inflight[i].pc = "idle"
  /\ \E router \in {"real", "sim"} : \E service \in Services(router) :
     \E body \in ChatInputs :
       inflight' = [inflight EXCEPT ![i] =
         [Idle EXCEPT !.pc = "received", !.router = router,
                      !.service = service, !.endpoint = "chat",
                      !.request = body]]
  /\ UNCHANGED probe

\* the body is parsed into the request model; a failure is answered 422 and
\* the handler body never runs
Validate(i) ==
  LET r == inflight[i] IN
  /\ r.pc = "received"
  /\ inflight' = [inflight EXCEPT ![i] =
       IF RequestValid(r.endpoint, r.request)
       THEN [r EXCEPT !.pc = "handler"]
       ELSE [r EXCEPT !.pc = "done", !.response = ValidationResponse]]
  /\ UNCHANGED probe

\* the handler body starts and awaits its collaborator
CallCollaborator(i) ==
  LET r == inflight[i] IN
  /\ r.pc = "handler"
  /\ inflight' = [inflight EXCEPT ![i] =
       [r EXCEPT !.pc = "awaiting", !.calls = r.calls + 1]]
  /\ UNCHANGED probe

\* the stub services of the real router
StubCollaborator(i) ==
  LET r == inflight[i] IN
  /\ r.pc = "awaiting" /\ r.service = "stub"
  /\ inflight' = [inflight EXCEPT ![i] =
       [r EXCEPT !.pc = "resumed",
                 !.outcome = IF r.endpoint = "ingest"
                   THEN IngestionService_process_repository(r.request)
                   ELSE ChatService_process_query(r.request)]]
  /\ UNCHANGED probe

\* the agent subsystem behind the services
AgentCollaborator(i) ==
  LET r == inflight[i] IN
  /\ r.pc = "awaiting" /\ r.service = "agent"
  /\ \E o \in AgentOutcomes(r.endpoint) :
       inflight' = [inflight EXCEPT ![i] =
         [r EXCEPT !.pc = "resumed", !.outcome = o]]
  /\ UNCHANGED probe

\* the placeholder functions of the simulation router
SimCollaborator(i) ==
  LET r == inflight[i] IN
  /\ r.pc = "awaiting" /\ r.service = "sim"
  /\ inflight' = [inflight EXCEPT ![i] =
       [r EXCEPT !.pc = "resumed",
                 !.outcome = IF r.endpoint = "ingest"
                   THEN process_ingestion_request(r.request)
                   ELSE process_chat_request(r.request)]]
  /\ UNCHANGED probe

\* the handler had it kept the awaited result in a module-level variable:
\* it answers with the result of whichever request resumed last
RealRespond_shared_result(i) ==
  LET r == inflight[i] IN
  /\ r.pc = "resumed" /\ r.router = "real"
  /\ \E j \in DOMAIN inflight :
       /\ inflight[j].pc \in {"resumed", "done"} /\ inflight[j].calls > 0
       /\ inflight' = [inflight EXCEPT ![i] =
            [r EXCEPT !.pc = "done",
                      !.response = IF r.endpoint = "ingest"
                        THEN ingest_repository(inflight[j].outcome)
                        ELSE chat_with_repository(inflight[j].outcome)]]
  /\ UNCHANGED probe

\* the handler had it retried its collaborator once after a failure
RealRespond_retry(i) ==
  LET r == inflight[i] IN
  /\ r.pc = "resumed" /\ r.router = "real"
  /\ inflight' = [inflight EXCEPT ![i] =
       IF r.outcome.raised /\ r.calls < 2
       THEN [r EXCEPT !.pc = "handler"]
       ELSE [r EXCEPT !.pc = "done",
                      !.response = IF r.endpoint = "ingest"
                        THEN ingest_repository(r.outcome)
                        ELSE chat_with_repository(r.outcome)]]
  /\ UNCHANGED probe

\* the real router's handler resumes and answers
RealRespond(i) ==
  LET r == inflight[i] IN
  /\ r.pc = "resumed" /\ r.router = "real"
  /\ inflight' = [inflight EXCEPT ![i] =
       [r EXCEPT !.pc = "done",
                 !.response = IF r.endpoint = "ingest"
                   THEN ingest_repository(r.outcome)
                   ELSE chat_with_repository(r.outcome)]]
  /\ UNCHANGED probe

\* the simulation router's handler resumes and answers
SimRespond(i) ==
  LET r == inflight[i] IN
  /\ r.pc = "resumed" /\ r.router = "sim"
  /\ inflight' = [inflight EXCEPT ![i] =
       [r EXCEPT !.pc = "done",
                 !.response = IF r.endpoint = "ingest"
                   THEN SimIngestRepository(r.outcome)
                   ELSE SimChatWithRepository(r.outcome)]]
  /\ UNCHANGED probe

NoProbe == [phase |-> "off"]

Init ==
  /\ inflight = [i \in {1} |-> Idle]
  /\ probe = NoProbe

Next ==
  \/ \E i \in Slots : ReceiveIngest(i)
  \/ \E i \in Slots : ReceiveChat(i)
  \/ \E i \in Slots : Validate(i)
  \/ \E i \in Slots : CallCollaborator(i)
  \/ \E i \in Slots : StubCollaborator(i)
  \/ \E i \in Slots : AgentCollaborator(i)
  \/ \E i \in Slots : SimCollaborator(i)
  \/ \E i \in Slots : RealRespond(i)
  \/ \E i \in Slots : SimRespond(i)

Spec == Init /\ [][Next]_vars

----------------------------------------------------------------------------
(* Several requests in flight at once.  Each request is one coroutine; the *)
(* event loop runs one of them up to its next await, in any order.  The    *)
(* steps are those of Spec, over fewer request bodies and agent outcomes.  *)

MaxInFlight == 2        \* requests in flight at once

ConcIngestInputs ==
  {[repository_url |-> "https://github.com/foo/private-repo",
    github_token |-> None],
   [repository_url |-> "http://github.com/foo/bar", github_token |-> None]}

ConcChatInputs ==
  {[message |-> "is the agent unavailable?",
    repository_id |-> "repo-a1b2c3d4", conversation_history |-> NoList],
   [message |-> "hello", repository_id |-> "repo-not-indexed",
    conversation_history |-> NoList]}

ConcAgentOutcomes(endpoint) ==
  {Raised(Exc("FileNotFoundError", "boom")),
   Raised(Exc("NotImplementedError", "")),
   Returned(IF endpoint = "ingest" THEN SimIngestSuccess
            ELSE SimChatSuccess)}

ConcReceiveIngest(i) ==
  /\ inflight[i].pc = "idle"
  /\ \E router \in {"real", "sim"} : \E service \in Services(router) :
     \E body \in ConcIngestInputs :
       inflight' = [inflight EXCEPT ![i] =
         [Idle EXCEPT !.pc = "received", !.router = router,
                      !.service = service, !.endpoint = "ingest",
                      !.request = body]]
  /\ UNCHANGED probe

ConcReceiveChat(i) ==
  /\ inflight[i].pc = "idle"
  /\ \E router \in {"real", "sim"} : \E service \in Services(router) :
     \E body \in ConcChatInputs :
       inflight' = [inflight EXCEPT ![i] =
         [Idle EXCEPT !.pc = "received", !.router = router,
                      !.service = service, !.endpoint = "chat",
                      !.request = body]]
  /\ UNCHANGED probe

ConcAgentCollaborator(i) ==
  LET r == inflight[i] IN
  /\ r.pc = "awaiting" /\ r.service = "agent"
  /\ \E o \in ConcAgentOutcomes(r.endpoint) :
       inflight' = [inflight EXCEPT ![i] =
         [r EXCEPT !.pc = "resumed", !.outcome = o]]
  /\ UNCHANGED probe

InitConc ==
  /\ inflight = [i \in 1..MaxInFlight |-> Idle]
  /\ probe = NoProbe

NextConc ==
  \/ \E i \in Slots : ConcReceiveIngest(i)
  \/ \E i \in Slots : ConcReceiveChat(i)
  \/ \E i \in Slots : Validate(i)
  \/ \E i \in Slots : CallCollaborator(i)
  \/ \E i \in Slots : StubCollaborator(i)
  \/ \E i \in Slots : ConcAgentCollaborator(i)
  \/ \E i \in Slots : SimCollaborator(i)
  \/ \E i \in Slots : RealRespond(i)
  \/ \E i \in Slots : SimRespond(i)

SpecConc == InitConc /\ [][NextConc]_vars

----------------------------------------------------------------------------
(* The classifiers as pure functions: a failure is drawn, then classified   *)
(* by the real router's classifier and by the simulation router's chain.    *)

CustomClasses ==
  {"InvalidURLError", "InvalidTokenError", "InsufficientPermissionsError",
   "RepoTooLargeError", "ProcessingFailedError", "StorageError",
   "UnsupportedFormatError"}

\* the class simulation_main.py raises for the same kind of failure
SimClass(cls) == IF cls \in CustomClasses THEN "sim." \o cls ELSE cls

InitClassify ==
  /\ inflight = <<>>
  /\ probe \in {[phase |-> "input", endpoint |-> ep, error |-> e] :
                  ep \in {"ingest", "chat"}, e \in AgentFailures}

ClassifyIngestion ==
  /\ probe.phase = "input" /\ probe.endpoint = "ingest"
  /\ probe' =
       [phase |-> "classified", endpoint |-> probe.endpoint,
        error |-> probe.error,
        real |-> handle_ingestion_error(probe.error),
        sim |-> SimIngestExcept(Exc(SimClass(probe.error.cls),
                                    probe.error.msg)),
        matched |-> MatchingRows(IngestionRows, probe.error)]
  /\ UNCHANGED inflight

ClassifyChat ==
  /\ probe.phase = "input" /\ probe.endpoint = "chat"
  /\ probe' =
       [phase |-> "classified", endpoint |-> probe.endpoint,
        error |-> probe.error,
        real |-> handle_chat_error(probe.error),
        sim |-> SimChatExcept(Exc(SimClass(probe.error.cls),
                                  probe.error.msg)),
        matched |-> MatchingRows(ChatRows, probe.error)]
  /\ UNCHANGED inflight

NextClassify == ClassifyIngestion \/ ClassifyChat

SpecClassify == InitClassify /\ [][NextClassify]_vars

----------------------------------------------------------------------------
(* The two repository_id validators as pure functions *)

IdPrefixes == {"repo-", "Repo-", "repo_", "xrepo-", ""}
IdBody == "a1b2c3d4"
IdChars == {"f", "9", "g", "A", "-", " "}

\* IdBody with its i-th character replaced by c
ReplaceAt(b, i, c) == (SubSeq(b, 1, i - 1) \o c) \o SubSeq(b, i + 1, Len(b))

IdBodies ==
  {ReplaceAt(IdBody, i, c) : i \in 1..Len(IdBody), c \in IdChars}
  \cup {IdBody}
  \cup {SubSeq(IdBody, 1, Len(IdBody) - k) : k \in 1..MaxOver}
  \cup {IdBody \o Rep("0", k) : k \in 1..MaxOver}

IdInputs ==
  {(p \o b) \o x : p \in IdPrefixes, b \in IdBodies, x \in {"", "\n"}}
  \cup {"repo-not-indexed", SimIngestSuccess.repository_id}

InitIds ==
  /\ inflight = <<>>
  /\ probe \in {[phase |-> "input", id |-> id] : id \in IdInputs}

\* the id is offered to IngestSuccessResponse and to ChatRequest
CheckRepositoryId ==
  /\ probe.phase = "input"
  /\ probe' = [phase |-> "checked", id |-> probe.id,
               ingestOk |-> IngestRepoIdPattern(probe.id),
               chatOk |-> ChatRepoIdPattern(probe.id)]
  /\ UNCHANGED inflight

NextIds == CheckRepositoryId

SpecIds == InitIds /\ [][NextIds]_vars

----------------------------------------------------------------------------
(* Properties *)

\* the mapping tables of the classifier, by exception class
IngestTable ==
  [c \in {"InvalidURLError"} |-> <<400, "INVALID_URL">>]
  @@ [c \in {"InvalidTokenError"} |-> <<401, "INVALID_TOKEN">>]
  @@ [c \in {"InsufficientPermissionsError"}
        |-> <<403, "INSUFFICIENT_PERMISSIONS">>]
  @@ [c \in {"FileNotFoundError"} |-> <<404, "REPO_NOT_FOUND">>]
  @@ [c \in {"PermissionError"} |-> <<401, "PRIVATE_REPO_NO_TOKEN">>]
  @@ [c \in {"RepoTooLargeError"} |-> <<422, "REPO_TOO_LARGE">>]
  @@ [c \in {"ProcessingFailedError"} |-> <<422, "PROCESSING_FAILED">>]
  @@ [c \in {"StorageError"} |-> <<500, "STORAGE_ERROR">>]
  @@ [c \in {"NotImplementedError"} |-> <<501, "NOT_IMPLEMENTED">>]

ChatTable ==
  [c \in {"FileNotFoundError"} |-> <<404, "REPO_NOT_INDEXED">>]
  @@ [c \in {"ValueError"} |-> <<422, "QUERY_PROCESSING_FAILED">>]
  @@ [c \in {"ConnectionError"} |-> <<500, "AGENT_UNAVAILABLE">>]
  @@ [c \in {"NotImplementedError"} |-> <<501, "NOT_IMPLEMENTED">>]

Table(endpoint) == IF endpoint = "ingest" THEN IngestTable ELSE ChatTable

GenericMessage(endpoint) ==
  IF endpoint = "ingest"
  THEN "An unexpected error occurred during repository processing."
  ELSE "An unexpected error occurred while processing the chat request."

\* the (status, error_code) pair of a response
Pair(resp) ==
  IF resp.kind = "error"
  THEN <<resp.status_code, resp.content.error_code>>
  ELSE <<resp.status_code, resp.kind>>

\* a request of the real router whose collaborator raised and whose handler
\* has answered
RealFailureDone(r) ==
  r.pc = "done" /\ r.router = "real" /\ r.calls > 0 /\ r.outcome.raised

\* C1: in the real router, every failure of a kind of the endpoint's
\* taxonomy raised by the collaborator is answered with exactly the
\* (status, error_code) pair of the mapping table.
C1_TablePairs ==
  \A i \in Slots :
    LET r == inflight[i] IN
    (RealFailureDone(r) /\ r.outcome.exc.cls \in DOMAIN Table(r.endpoint))
      => Pair(r.response) = Table(r.endpoint)[r.outcome.exc.cls]

\* C2: every collaborator failure that is not one of the endpoint's named
\* kinds is answered (500, "AGENT_ERROR") with the endpoint's fixed generic
\* message, never with the raw message of the failure.
C2_FallbackForOtherFailures ==
  \A i \in Slots :
    LET r == inflight[i] IN
    (RealFailureDone(r) /\ r.outcome.exc.cls \notin DOMAIN Table(r.endpoint))
      => /\ Pair(r.response) = <<500, "AGENT_ERROR">>
         /\ r.response.content.error = GenericMessage(r.endpoint)

\* C3: whatever the collaborator raises for a schema-valid request, the
\* handler answers with a structured body {success: false, error,
\* error_code} that fits the error-response shape (error of 1..1000
\* characters, error_code of 1..50); no exception leaves the handler.
C3_StructuredErrorBody ==
  \A i \in Slots :
    LET r == inflight[i] IN
    (r.pc = "done" /\ r.calls > 0 /\ r.outcome.raised)
      => /\ r.response.kind = "error"
         /\ r.response.content.success = FALSE
         /\ Len(r.response.content.error) \in 1..1000
         /\ Len(r.response.content.error_code) \in 1..50

\* the positions of the slashes of s
Slashes(s) == {i \in 1..Len(s) : CharAt(s, i) = "/"}

\* the segments of s between its slashes
SplitSlash(s) ==
  LET P == Slashes(s)
      cuts == {0} \cup P \cup {Len(s) + 1}
      next(i) == CHOOSE j \in cuts : j > i /\ \A k \in cuts : k > i => j <= k
      start(n) == IF n = 1 THEN 0
                  ELSE CHOOSE i \in P : Cardinality({k \in P : k <= i}) = n - 1
  IN [n \in 1..(Cardinality(P) + 1) |->
        SubSeq(s, start(n) + 1, next(start(n)) - 1)]

NameChar(c) ==
  \/ c \in Chars("abcdefghijklmnopqrstuvwxyz")
  \/ c \in Chars("ABCDEFGHIJKLMNOPQRSTUVWXYZ")
  \/ c \in Chars("0123456789")
  \/ c \in {".", "_", "-"}

UrlName(s) == s # "" /\ \A i \in 1..Len(s) : NameChar(CharAt(s, i))

\* the URL pattern ^https://github\.com/[A-Za-z0-9._-]+/[A-Za-z0-9._-]+/?$
\* read segment by segment: after the prefix come an owner and a repository
\* name, each a non-empty run of letters, digits, ".", "_" and "-", and
\* possibly one closing slash (and, `$` being Python's, a final newline)
UrlMatchesPattern(v) ==
  LET w == IF Len(v) > 0 /\ CharAt(v, Len(v)) = "\n"
           THEN SubSeq(v, 1, Len(v) - 1) ELSE v
  IN /\ Len(w) >= 19
     /\ SubSeq(w, 1, 19) = "https://github.com/"
     /\ LET parts == SplitSlash(SubSeq(w, 20, Len(w)))
        IN /\ Len(parts) \in {2, 3}
           /\ UrlName(parts[1])
           /\ UrlName(parts[2])
           /\ (Len(parts) = 3 => parts[3] = "")

\* an ingestion request that meets the pattern and the length bounds
WellFormedIngest(req) ==
  /\ UrlMatchesPattern(req.repository_url)
  /\ Len(req.repository_url) \in 19..200
  /\ (req.github_token = None \/ Len(req.github_token) \in 4..200)

C5_HistoryChecksAgree ==
  \A i \in Slots :
    LET r == inflight[i] IN
    r.endpoint = "chat" =>
      LET h == r.request.conversation_history
          short == h.none \/ Len(h.items) \in 0..10
      IN /\ HistoryMaxItemsOk(h) = short
         /\ validate_conversation_history(h) = short
         /\ (r.pc = "done" /\ ~short)
              => (r.response.status_code = 422 /\ r.calls = 0)
         /\ r.calls > 0 => short

C5_Witness ==
  \E i \in Slots :
    LET r == inflight[i] IN
    /\ r.pc = "done" /\ r.endpoint = "chat"
    /\ r.request.message = "hello"
    /\ r.request.repository_id = "repo-a1b2c3d4"
    /\ ~r.request.conversation_history.none
    /\ Len(r.request.conversation_history.items) = 11
    /\ \A k \in 1..11 : r.request.conversation_history.items[k].role = "user"
                     /\ r.request.conversation_history.items[k].content = "hi"
    /\ ~HistoryMaxItemsOk(r.request.conversation_history)
    /\ ~validate_conversation_history(r.request.conversation_history)
    /\ r.response.status_code = 422

\* the outcome of a classification: the (status, error_code) pair of the
\* response, or the escape of an exception
ClassifiedPair(c) ==
  IF c.raised THEN <<0, c.exc.cls>>
  ELSE <<c.value.status_code, c.value.content.error_code>>

\* C6: for every failure the collaborator can raise, the real router's
\* classifier and the simulation router's except chain produce the same
\* (status, error_code) pair.
C6_RoutersClassifyAlike ==
  probe.phase = "classified"
    => ClassifiedPair(probe.real) = ClassifiedPair(probe.sim)

\* C7: no failure of an endpoint's taxonomy satisfies the test of two rows
\* of that endpoint's mapping table at once.
C7_AtMostOneRowMatches ==
  (probe.phase = "classified"
     /\ probe.error.cls \in DOMAIN Table(probe.endpoint))
    => Cardinality(probe.matched) <= 1

\* "repo-" followed by 8 characters of [a-f0-9]
IsRepoId(s) ==
  /\ Len(s) = 13
  /\ SubSeq(s, 1, 5) = "repo-"
  /\ \A i \in 6..13 :
       CharAt(s, i) \in {"a", "b", "c", "d", "e", "f", "0", "1", "2", "3",
                         "4", "5", "6", "7", "8", "9"}

\* C8: every repository_id the IngestSuccessResponse shape accepts is
\* accepted by the repository_id validator of ChatRequest, and the two
\* accept exactly the same strings: "repo-" followed by 8 characters of
\* [a-f0-9].
C8_IdRoundTrip ==
  probe.phase = "checked"
    => /\ (probe.ingestOk => probe.chatOk)
       /\ probe.ingestOk = IsRepoId(probe.id)
       /\ probe.chatOk = IsRepoId(probe.id)

C8_Witness ==
  /\ probe.phase = "checked"
  /\ probe.id = SimIngestSuccess.repository_id
  /\ probe.ingestOk /\ probe.chatOk

\* a chat request that the simulation router has validated and answered
SimChatDone(r) ==
  r.pc = "done" /\ r.router = "sim" /\ r.endpoint = "chat" /\ r.calls > 0

\* C9 as stated: in the simulation router every schema-valid chat request
\* whose message contains "unavailable" is answered 500 with error_code
\* "AGENT_UNAVAILABLE".
C9_UnavailableAlways500 ==
  \A i \in Slots :
    LET r == inflight[i] IN
    (SimChatDone(r) /\ Contains(r.request.message, "unavailable"))
      => Pair(r.response) = <<500, "AGENT_UNAVAILABLE">>

\* C9 as amended: in the simulation router every schema-valid chat request
\* whose message contains "unavailable" and does not contain
\* "unprocessable" is answered 500 with error_code "AGENT_UNAVAILABLE"; one
\* that contains both is answered 422 "QUERY_PROCESSING_FAILED".
C9_UnavailableUnlessUnprocessable ==
  \A i \in Slots :
    LET r == inflight[i] IN
    (SimChatDone(r) /\ Contains(r.request.message, "unavailable"))
      => Pair(r.response) =
           IF Contains(r.request.message, "unprocessable")
           THEN <<422, "QUERY_PROCESSING_FAILED">>
           ELSE <<500, "AGENT_UNAVAILABLE">>

C9_Witness ==
  \E i \in Slots :
    LET r == inflight[i] IN
    /\ SimChatDone(r)
    /\ r.request.message = "is the agent unavailable?"
    /\ r.response.kind = "error"
    /\ r.response.status_code = 500
    /\ r.response.content.error_code = "AGENT_UNAVAILABLE"

\* C10: a chat request with repository_id "repo-not-indexed" is rejected
\* with 422 and never reaches the chat collaborator; so the simulation
\* router never answers a chat request with 404 or "REPO_NOT_INDEXED".
C10_NotIndexedUnreachable ==
  \A i \in Slots :
    LET r == inflight[i] IN
    r.endpoint = "chat" =>
      /\ r.request.repository_id = "repo-not-indexed"
           => /\ r.calls = 0
              /\ r.pc \in {"received", "done"}
              /\ r.pc = "done" => r.response.status_code = 422
      /\ (r.router = "sim" /\ r.pc = "done")
           => /\ r.response.status_code # 404
              /\ Pair(r.response)[2] # "REPO_NOT_INDEXED"
      /\ (r.router = "sim" /\ r.outcome.raised)
           => r.outcome.exc.cls # "FileNotFoundError"

C10_Witness ==
  \E i \in Slots :
    LET r == inflight[i] IN
    /\ r.pc = "done" /\ r.router = "sim" /\ r.endpoint = "chat"
    /\ r.request.repository_id = "repo-not-indexed"
    /\ r.request.message = "hello"
    /\ r.request.conversation_history.none
    /\ r.response.status_code = 422 /\ r.calls = 0

\* the response a request gets, from its own fields alone
OwnAnswer(r) ==
  IF r.calls = 0 THEN ValidationResponse
  ELSE IF r.router = "real"
       THEN (IF r.endpoint = "ingest" THEN ingest_repository(r.outcome)
             ELSE chat_with_repository(r.outcome))
       ELSE (IF r.endpoint = "ingest" THEN SimIngestRepository(r.outcome)
             ELSE SimChatWithRepository(r.outcome))

\* the outcome of the stub and of the simulation placeholder, from the
\* request alone
OwnOutcome(r) ==
  IF r.service = "stub"
  THEN (IF r.endpoint = "ingest"
        THEN IngestionService_process_repository(r.request)
        ELSE ChatService_process_query(r.request))
  ELSE (IF r.endpoint = "ingest" THEN process_ingestion_request(r.request)
        ELSE process_chat_request(r.request))

\* two requests with the same router, body and collaborator outcome
SameExchange(a, b) ==
  /\ a.router = b.router /\ a.service = b.service
  /\ a.endpoint = b.endpoint /\ a.request = b.request
  /\ a.calls = b.calls /\ a.outcome = b.outcome

\* C11: with several requests in flight and their steps interleaved in any
\* order, every step changes the state of one request only and leaves the
\* other requests as they were; a request keeps its own body; the outcome
\* of its collaborator and its response are functions of its own body and
\* outcome, whatever the other requests are doing; two requests with the
\* same body and outcome get the same response.
C11_RequestsIndependent ==
  [][\A i \in Slots :
       LET old == inflight[i]
           new == inflight'[i]
       IN /\ new # old => \A j \in Slots \ {i} : inflight'[j] = inflight[j]
          /\ old.pc # "idle"
               => /\ new.request = old.request
                  /\ new.router = old.router /\ new.service = old.service
                  /\ new.endpoint = old.endpoint
          /\ old.pc \in {"resumed", "done"} => new.outcome = old.outcome
          /\ (new.pc \in {"resumed", "done"} /\ new.calls > 0
                /\ new.service # "agent")
               => new.outcome = OwnOutcome(new)
          /\ new.pc = "done" => new.response = OwnAnswer(new)
          /\ \A j \in Slots :
               (new.pc = "done" /\ inflight'[j].pc = "done"
                  /\ SameExchange(new, inflight'[j]))
                 => new.response = inflight'[j].response]_vars

\* one request is suspended on its collaborator while another, of the other
\* endpoint, has been called, classified and answered
C11_Witness ==
  /\ Cardinality(Slots) >= 2
  /\ inflight[1].pc = "awaiting" /\ inflight[1].endpoint = "ingest"
  /\ inflight[2].pc = "done" /\ inflight[2].endpoint = "chat"
  /\ inflight[2].calls = 1 /\ inflight[2].outcome.raised
  /\ inflight[2].response.kind = "error"

\* the triggers of the simulated ingestion, in the order they are tested:
\* where the word is looked for, the word, whether the trigger also needs
\* the token to be absent, and the answer
Trigger(field, word, noToken, st, code) ==
  [field |-> field, word |-> word, noToken |-> noToken,
   answer |-> <<st, code>>]

IngestTriggers ==
  << Trigger("url", "invalid-url", FALSE, 400, "INVALID_URL"),
     Trigger("url", "not-found", FALSE, 404, "REPO_NOT_FOUND"),
     Trigger("url", "private", TRUE, 401, "PRIVATE_REPO_NO_TOKEN"),
     Trigger("token", "invalid-token", FALSE, 401, "INVALID_TOKEN"),
     Trigger("token", "insufficient-permissions", FALSE, 403,
             "INSUFFICIENT_PERMISSIONS"),
     Trigger("url", "repo-too-large", FALSE, 422, "REPO_TOO_LARGE"),
     Trigger("url", "processing-failed", FALSE, 422, "PROCESSING_FAILED"),
     Trigger("url", "storage-error", FALSE, 500, "STORAGE_ERROR"),
     Trigger("url", "fail-processing", FALSE, 500, "AGENT_ERROR") >>

TriggerHolds(t, req) ==
  IF t.field = "url"
  THEN /\ Contains(req.repository_url, t.word)
       /\ (t.noToken => req.github_token = None)
  ELSE /\ req.github_token # None
       /\ Contains(req.github_token, t.word)

TriggersHolding(req) ==
  {k \in 1..Len(IngestTriggers) : TriggerHolds(IngestTriggers[k], req)}

\* an ingestion request that the simulation router has validated and answered
SimIngestDone(r) ==
  r.pc = "done" /\ r.router = "sim" /\ r.endpoint = "ingest" /\ r.calls > 0

\* C12: in the simulation router the answer to a schema-valid ingestion
\* request is that of the first trigger that matches, in the fixed order of
\* IngestTriggers; when none matches the answer is 200 with success = true
\* and a repository_id of the form repo-[a-f0-9]{8}.
C12_FirstTriggerDecides ==
  \A i \in Slots :
    LET r == inflight[i] IN
    SimIngestDone(r) =>
      LET m == TriggersHolding(r.request) IN
      IF m = {}
      THEN /\ r.response.kind = "success"
           /\ r.response.status_code = 200
           /\ r.response.content.success = TRUE
           /\ IsRepoId(r.response.content.repository_id)
      ELSE Pair(r.response) =
             IngestTriggers[CHOOSE k \in m : \A j \in m : k <= j].answer

\* the token trigger wins over the later size and storage triggers, the
\* "private" trigger does not fire because a token is present
C12_Witness ==
  \E i \in Slots :
    LET r == inflight[i] IN
    /\ SimIngestDone(r)
    /\ r.request.repository_url =
         "https://github.com/private/storage-error-repo-too-large"
    /\ r.request.github_token = "invalid-token insufficient-permissions"
    /\ TriggersHolding(r.request) = {4, 5, 6, 8}
    /\ Pair(r.response) = <<401, "INVALID_TOKEN">>

\* a chat request that meets the bounds of the request shape
WellFormedChat(req) ==
  /\ Len(req.message) \in 1..5000
  /\ IsRepoId(req.repository_id)
  /\ \/ req.conversation_history.none
     \/ /\ Len(req.conversation_history.items) \in 0..10
        /\ \A k \in 1..Len(req.conversation_history.items) :
             LET e == req.conversation_history.items[k]
             IN (e.role = "user" \/ e.role = "agent")
                /\ Len(e.content) \in 1..5000

WellFormed(r) ==
  IF r.endpoint = "ingest" THEN WellFormedIngest(r.request)
  ELSE WellFormedChat(r.request)

\* C13: a handler invokes its collaborator at most once for a request:
\* once when the request passes validation, never when it does not; once
\* the collaborator has returned or raised, the response is produced with
\* no further call; a success is returned unchanged with status 200.
C13_SingleCollaboratorCall ==
  \A i \in Slots :
    LET r == inflight[i] IN
    r.pc # "idle" =>
      /\ r.calls \in {0, 1}
      /\ ~WellFormed(r) => r.calls = 0
      /\ (WellFormed(r) /\ r.pc \in {"awaiting", "resumed", "done"})
           => r.calls = 1
      /\ (r.pc = "done" /\ r.calls = 1 /\ ~r.outcome.raised)
           => /\ r.response.kind = "success"
              /\ r.response.status_code = 200
              /\ r.response.content = r.outcome.value

\* the collaborator raised, and the handler answered after its one call
C13_Witness ==
  \E i \in Slots :
    LET r == inflight[i] IN
    /\ r.pc = "done" /\ r.router = "real" /\ r.endpoint = "ingest"
    /\ r.calls = 1 /\ r.outcome.raised
    /\ r.outcome.exc = Exc("StorageError", "boom")
    /\ Pair(r.response) = <<500, "STORAGE_ERROR">>

\* a request answered by the real router wired to its stub service
StubDone(r) ==
  r.pc = "done" /\ r.router = "real" /\ r.service = "stub"

\* C14: the real router's services are stubs that always raise
\* NotImplementedError, so every schema-valid request to either endpoint is
\* answered 501 "NOT_IMPLEMENTED" with the endpoint's fixed message, not the
\* text of the raised exception, and no request is answered 200.
C14_StubAnswers501 ==
  \A i \in Slots :
    LET r == inflight[i] IN
    StubDone(r) =>
      /\ r.response.status_code # 200
      /\ WellFormed(r)
           => /\ r.response.kind = "error"
              /\ Pair(r.response) = <<501, "NOT_IMPLEMENTED">>
              /\ r.response.content.error =
                   (IF r.endpoint = "ingest"
                    THEN "Ingestion agent not yet implemented"
                    ELSE "Chat agent not yet implemented")
              /\ r.response.content.error # r.outcome.exc.msg

C14_Witness ==
  \E i \in Slots :
    LET r == inflight[i] IN
    /\ StubDone(r) /\ r.endpoint = "chat" /\ r.calls = 1
    /\ r.request.message = "hello"
    /\ r.outcome.exc = Exc("NotImplementedError",
                           "Chat agent integration pending")
    /\ r.response.status_code = 501
    /\ r.response.content.error_code = "NOT_IMPLEMENTED"
    /\ r.response.content.error = "Chat agent not yet implemented"

====
